---- MODULE Spec2Model ----
(***************************************************************************)
(* State-machine model of the flashcard deck controller                    *)
(* (flashcards/src/components/FlashcardDeck.tsx) and of the scheduler it   *)
(* imports from ../utils/spacedRepetition.                                 *)
(*                                                                         *)
(* One action stands for one user event: the event handler, the render     *)
(* that follows it and the effects of that render.  Handlers read the      *)
(* values of the render that created them (the closure), so a handler      *)
(* that calls setCards and then handleNext sees the deck as it was before  *)
(* the rating.  The rating buttons exist only on a flipped card; flipping  *)
(* is always possible while a card is shown and changes nothing else, so   *)
(* a rating action stands for "flip, then rate".                           *)
(***************************************************************************)
EXTENDS Integers, Sequences, FiniteSets, TLC

\* ---------------------------------------------------------------- bounds
NumCards == 2
MaxLog == 2
MaxNow == 1
MaxScheduled == 2
MaxSteps == 6
MaxReviewSteps == 8
MaxStorageSteps == 6
MaxReviews == 5
MaxClock == 2

\* ------------------------------------------------------------- constants
\* `undefined` in a numeric field of a card
NoVal == -1
\* scheduler parameters, in tenths for the ease factor and days otherwise
MinEase == 13
DefaultEase == 25
EaseStep == 2
HardInterval == 1
FirstInterval == 1
SecondInterval == 6

Ratings == {"easy", "medium", "hard"}
Filters == {"all", "favorites", "easy", "medium", "hard", "due"}
Queries == {<<>>, <<" ">>, <<"a">>}

Max(a, b) == IF a >= b THEN a ELSE b

\* ------------------------------------------------------------------ text
toLowerCase(str) ==
  [i \in 1..Len(str) |->
     CASE str[i] = "A" -> "a"
       [] str[i] = "B" -> "b"
       [] str[i] = "C" -> "c"
       [] OTHER -> str[i]]

RECURSIVE trimStart(_)
trimStart(str) ==
  IF str # <<>> /\ Head(str) = " " THEN trimStart(Tail(str)) ELSE str

RECURSIVE trimEnd(_)
trimEnd(str) ==
  IF str # <<>> /\ str[Len(str)] = " "
  THEN trimEnd(SubSeq(str, 1, Len(str) - 1)) ELSE str

trim(str) == trimEnd(trimStart(str))

includes(str, q) ==
  \E i \in 0..(Len(str) - Len(q)) : SubSeq(str, i + 1, i + Len(q)) = q

\* the baseline deck the application hands to the component
Front(i) == IF i % 2 = 1 THEN <<"A", "b">> ELSE <<"B", "c">>
Back(i) == <<"c">>

convertToSRSCards ==
  [i \in 1..NumCards |->
     [id |-> i, front |-> Front(i), back |-> Back(i),
      difficulty |-> "none", favorite |-> FALSE,
      dueDate |-> NoVal, interval |-> NoVal, easeFactor |-> NoVal,
      repetitions |-> NoVal, lastReviewed |-> NoVal]]

initialCards == convertToSRSCards

\* ------------------------------------------------------------- scheduler
\* interval before any review, repetitions and ease factor of a new card
PrevInterval(card) == IF card.interval = NoVal THEN 0 ELSE card.interval
PrevRepetitions(card) == IF card.repetitions = NoVal THEN 0 ELSE card.repetitions
PrevEase(card) == IF card.easeFactor = NoVal THEN DefaultEase ELSE card.easeFactor

\* round(interval * ease / 10), halves up
Scaled(interval, ease) == (2 * interval * ease + 10) \div 20

\* variant: a hard rating halves the interval
NextIntervalHalvingOnHard(card, rating) ==
  CASE rating = "hard" -> Max(HardInterval, PrevInterval(card) \div 2)
    [] rating = "medium" ->
         Max(PrevInterval(card) + 1, Scaled(PrevInterval(card), 12))
    [] OTHER ->
         IF PrevRepetitions(card) = 0 THEN FirstInterval
         ELSE IF PrevRepetitions(card) = 1 THEN SecondInterval
         ELSE Scaled(PrevInterval(card), PrevEase(card))

\* variant: the ease factor multiplies from the second easy rating on
NextIntervalGrowingFromSecond(card, rating) ==
  CASE rating = "hard" -> HardInterval
    [] rating = "medium" ->
         Max(PrevInterval(card) + 1, Scaled(PrevInterval(card), 12))
    [] OTHER ->
         IF PrevRepetitions(card) = 0 THEN FirstInterval
         ELSE Scaled(PrevInterval(card), PrevEase(card))

NextInterval(card, rating) ==
  CASE rating = "hard" -> HardInterval
    [] rating = "medium" ->
         Max(PrevInterval(card) + 1, Scaled(PrevInterval(card), 12))
    [] OTHER ->
         IF PrevRepetitions(card) = 0 THEN FirstInterval
         ELSE IF PrevRepetitions(card) = 1 THEN SecondInterval
         ELSE Scaled(PrevInterval(card), PrevEase(card))

\* variant: the interval is counted from the review before this one
calculateNextReviewFromLastReview(card, rating, now) ==
  LET iv == NextInterval(card, rating)
      from == IF card.lastReviewed = NoVal THEN now ELSE card.lastReviewed IN
  [card EXCEPT
     !.difficulty = rating,
     !.repetitions = IF rating = "hard" THEN 0 ELSE PrevRepetitions(card) + 1,
     !.easeFactor = CASE rating = "hard" -> Max(MinEase, PrevEase(card) - EaseStep)
                      [] rating = "medium" -> PrevEase(card)
                      [] OTHER -> PrevEase(card) + EaseStep,
     !.interval = iv,
     !.dueDate = from + iv,
     !.lastReviewed = now]

calculateNextReview(card, rating, now) ==
  LET iv == NextInterval(card, rating) IN
  [card EXCEPT
     !.difficulty = rating,
     !.repetitions = IF rating = "hard" THEN 0 ELSE PrevRepetitions(card) + 1,
     !.easeFactor = CASE rating = "hard" -> Max(MinEase, PrevEase(card) - EaseStep)
                      [] rating = "medium" -> PrevEase(card)
                      [] OTHER -> PrevEase(card) + EaseStep,
     !.interval = iv,
     !.dueDate = now + iv,
     !.lastReviewed = now]

\* variant: only a card with a due date can be due
IsDueWhenDated(card, now) == card.dueDate # NoVal /\ card.dueDate <= now

IsDue(card, now) == card.dueDate = NoVal \/ card.dueDate <= now

getDueCards(cs, now) == SelectSeq(cs, LAMBDA c : IsDue(c, now))

\* stable insertion of c into an ascending sequence; absent due dates first
DueKey(card) == card.dueDate
\* variant: the card goes before the cards with its due date
RECURSIVE InsertByDueBeforeEquals(_, _)
InsertByDueBeforeEquals(c, sorted) ==
  IF sorted = <<>> THEN <<c>>
  ELSE IF DueKey(Head(sorted)) < DueKey(c)
       THEN <<Head(sorted)>> \o InsertByDueBeforeEquals(c, Tail(sorted))
       ELSE <<c>> \o sorted

RECURSIVE InsertByDue(_, _)
InsertByDue(c, sorted) ==
  IF sorted = <<>> THEN <<c>>
  ELSE IF DueKey(Head(sorted)) <= DueKey(c)
       THEN <<Head(sorted)>> \o InsertByDue(c, Tail(sorted))
       ELSE <<c>> \o sorted

RECURSIVE sortCardsByDueDate(_)
sortCardsByDueDate(cs) ==
  IF cs = <<>> THEN <<>>
  ELSE InsertByDue(cs[Len(cs)], sortCardsByDueDate(SubSeq(cs, 1, Len(cs) - 1)))

\* ----------------------------------------------------------------- state
VARIABLES
  currentIndex,        \* cursor into the filtered view
  cards,               \* the deck
  isReviewingHard,
  showReviewPrompt,
  showScoreboard,
  reviewedCardIds,
  reviewResults,       \* counters of the hard-card review pass
  searchQuery,
  filterType,
  useSRS,
  hardCardsForReview,  \* snapshot iterated by the review pass
  reviewIndex,
  sessions,            \* localStorage 'flashcards-study-sessions'
  stored,              \* localStorage 'flashcards-srs-<categoryId>', <<>> when absent
  now,                 \* the clock, in days
  crashed,             \* a render threw: the component is unmounted
  hookMounted,         \* the scoreboard's effect hook has run once
  storageFull,         \* localStorage rejects every setItem (quota exceeded)
  kbd,                 \* the render whose handlers the keydown listener holds
  passRated,           \* history: ids rated in the current review pass, in order
  ratedInPass,         \* history: a card was rated in the current browsing pass
  scheduled,           \* history: ratings given with useSRS on
  lastRating,          \* history: the rating the user gave each card id last
  passNo,              \* history: review passes begun since the review was entered
  stepsLeft            \* history: user events the run may still take

vars == <<currentIndex, cards, isReviewingHard, showReviewPrompt, showScoreboard,
          reviewedCardIds, reviewResults, searchQuery, filterType, useSRS,
          hardCardsForReview, reviewIndex, sessions, stored, now, crashed,
          hookMounted, storageFull, kbd, passRated, ratedInPass, scheduled, lastRating, passNo,
          stepsLeft>>

NoResults == [easy |-> 0, medium |-> 0, hard |-> 0]

\* the component's state as one value; cardsSet marks a pending setCards,
\* thrown an exception on its way up the call stack
Cur ==
  [currentIndex |-> currentIndex, cards |-> cards,
   isReviewingHard |-> isReviewingHard, showReviewPrompt |-> showReviewPrompt,
   showScoreboard |-> showScoreboard, reviewedCardIds |-> reviewedCardIds,
   reviewResults |-> reviewResults, searchQuery |-> searchQuery,
   filterType |-> filterType, useSRS |-> useSRS,
   hardCardsForReview |-> hardCardsForReview, reviewIndex |-> reviewIndex,
   sessions |-> sessions, stored |-> stored, now |-> now, crashed |-> crashed,
   hookMounted |-> hookMounted, storageFull |-> storageFull,
   cardsSet |-> FALSE, thrown |-> FALSE]

\* ------------------------------------------------------- derived values
\* variant: every rated card counts as hard
hardCardsRated(s) == SelectSeq(s.cards, LAMBDA c : c.difficulty # "none")

hardCards(s) == SelectSeq(s.cards, LAMBDA c : c.difficulty = "hard")

dueCards(s) == getDueCards(s.cards, s.now)

MatchesQuery(card, searchQ) ==
  LET query == toLowerCase(searchQ) IN
  includes(toLowerCase(card.front), query) \/ includes(toLowerCase(card.back), query)

\* variant: the 'due' view is left in deck order
getFilteredCardsUnsorted(s) ==
  IF s.isReviewingHard
  THEN SelectSeq(hardCards(s), LAMBDA c : c.id \notin s.reviewedCardIds)
  ELSE
    LET byFilter ==
          IF s.filterType = "favorites"
          THEN SelectSeq(s.cards, LAMBDA c : c.favorite)
          ELSE IF s.filterType = "due" /\ s.useSRS THEN dueCards(s)
          ELSE IF s.filterType # "all"
          THEN SelectSeq(s.cards, LAMBDA c : c.difficulty = s.filterType)
          ELSE s.cards
    IN IF trim(s.searchQuery) # <<>>
       THEN SelectSeq(byFilter, LAMBDA c : MatchesQuery(c, s.searchQuery))
       ELSE byFilter

getFilteredCards(s) ==
  IF s.isReviewingHard
  THEN SelectSeq(hardCards(s), LAMBDA c : c.id \notin s.reviewedCardIds)
  ELSE
    LET byFilter ==
          IF s.filterType = "favorites"
          THEN SelectSeq(s.cards, LAMBDA c : c.favorite)
          ELSE IF s.filterType = "due" /\ s.useSRS THEN dueCards(s)
          ELSE IF s.filterType # "all"
          THEN SelectSeq(s.cards, LAMBDA c : c.difficulty = s.filterType)
          ELSE s.cards
        bySearch ==
          IF trim(s.searchQuery) # <<>>
          THEN SelectSeq(byFilter, LAMBDA c : MatchesQuery(c, s.searchQuery))
          ELSE byFilter
    IN IF s.useSRS /\ s.filterType = "due"
       THEN sortCardsByDueDate(bySearch) ELSE bySearch

progress(s) ==
  [total |-> Len(s.cards),
   reviewed |-> Len(SelectSeq(s.cards, LAMBDA c : c.difficulty # "none")),
   easy |-> Len(SelectSeq(s.cards, LAMBDA c : c.difficulty = "easy")),
   medium |-> Len(SelectSeq(s.cards, LAMBDA c : c.difficulty = "medium")),
   hard |-> Len(SelectSeq(s.cards, LAMBDA c : c.difficulty = "hard"))]

\* the rating applied to one card, cards.map(card => card.id === id ? ... :
\* card): the scheduler, or the difficulty alone
RateWithSRS(cs, id, difficulty, t) ==
  [i \in 1..Len(cs) |->
     IF cs[i].id = id THEN calculateNextReview(cs[i], difficulty, t) ELSE cs[i]]

\* variant: the rating also clears the card's schedule
RateWithoutSRSResetting(cs, id, difficulty) ==
  [i \in 1..Len(cs) |->
     IF cs[i].id = id
     THEN [cs[i] EXCEPT !.difficulty = difficulty, !.dueDate = NoVal,
                        !.interval = NoVal, !.repetitions = NoVal]
     ELSE cs[i]]

RateWithoutSRS(cs, id, difficulty) ==
  [i \in 1..Len(cs) |->
     IF cs[i].id = id THEN [cs[i] EXCEPT !.difficulty = difficulty] ELSE cs[i]]

\* -------------------------------------------------------------- handlers
\* A handler is a function of the render that created it (s, its closure).
\* handleNext is also called inside handleDifficultySelect, after setCards:
\* it then reads the closure c and adds its updates to the pending state p.
handleNext(c, p) ==
  LET currentCards == getFilteredCards(c)
      nextIndex == (c.currentIndex + 1) % Max(1, Len(currentCards))
  IN IF Len(currentCards) = 0 THEN p
     ELSE IF c.isReviewingHard /\ Len(currentCards) <= 1 THEN p
     ELSE IF /\ nextIndex = 0
             /\ ~c.isReviewingHard
             /\ Len(hardCards(c)) > 0
             /\ c.filterType = "all"
             /\ c.searchQuery = <<>>
          THEN [p EXCEPT !.showReviewPrompt = TRUE]
          ELSE [p EXCEPT !.currentIndex = nextIndex]

\* setCurrentIndex(prev => ...): the length is the closure's, prev is current
handlePrevious(c, p) ==
  LET currentCards == getFilteredCards(c)
  IN IF Len(currentCards) = 0 THEN p
     ELSE [p EXCEPT !.currentIndex =
             (p.currentIndex - 1 + Len(currentCards)) % Max(1, Len(currentCards))]

\* the branch taken outside the hard-card review (the handler is mounted on
\* the browsing card only); currentCards[currentIndex].id throws on a cursor
\* past the view
handleDifficultySelect(s, difficulty) ==
  LET currentCards == getFilteredCards(s)
  IN IF s.currentIndex >= Len(currentCards)
     THEN [s EXCEPT !.crashed = TRUE]
     ELSE LET id == currentCards[s.currentIndex + 1].id
              rated == IF s.useSRS
                       THEN RateWithSRS(s.cards, id, difficulty, s.now)
                       ELSE RateWithoutSRS(s.cards, id, difficulty)
          IN handleNext(s, [s EXCEPT !.cards = rated, !.cardsSet = TRUE])

\* variant: the toggle also forgets the card's rating
FlipFavoriteForgetting(cs, id) ==
  [i \in 1..Len(cs) |->
     IF cs[i].id = id
     THEN [cs[i] EXCEPT !.favorite = ~cs[i].favorite, !.difficulty = "none"]
     ELSE cs[i]]

\* cards.map(c => c.id === id ? {...c, favorite: !c.favorite} : c)
FlipFavorite(cs, id) ==
  [i \in 1..Len(cs) |->
     IF cs[i].id = id THEN [cs[i] EXCEPT !.favorite = ~cs[i].favorite] ELSE cs[i]]

\* without a card argument: the card under the cursor, guarded
handleToggleFavorite(s) ==
  LET currentCards == getFilteredCards(s)
  IN IF Len(currentCards) = 0 \/ s.currentIndex >= Len(currentCards) THEN s
     ELSE [s EXCEPT
             !.cards = FlipFavorite(s.cards, currentCards[s.currentIndex + 1].id),
             !.cardsSet = TRUE]

\* with the card under review as argument
handleToggleFavoriteOf(s, card) ==
  [s EXCEPT
     !.cards = FlipFavorite(s.cards, card.id),
     !.cardsSet = TRUE]

\* variant: the record counts the cards of the deck
SessionCountingDeck(easy, medium, hard) ==
  [cardsReviewed |-> NumCards,
   easy |-> easy, medium |-> medium, hard |-> hard]

Session(easy, medium, hard) ==
  [cardsReviewed |-> easy + medium + hard,
   easy |-> easy, medium |-> medium, hard |-> hard]

\* localStorage.setItem on the session log: a full store rejects the write
\* with an exception, which unwinds the callers until one catches it
setItem(s, log) ==
  IF s.storageFull THEN [s EXCEPT !.thrown = TRUE] ELSE [s EXCEPT !.sessions = log]

\* saveSRSData: a write that fails is caught and logged inside it
saveSRSData(s, cs) ==
  IF s.storageFull THEN s ELSE [s EXCEPT !.stored = cs]

\* variant: the write is outside the try block
saveStudySessionUncaught(s) ==
  LET session == IF s.isReviewingHard
                 THEN Session(s.reviewResults.easy, s.reviewResults.medium,
                              s.reviewResults.hard)
                 ELSE Session(progress(s).easy, progress(s).medium, progress(s).hard)
  IN IF session.cardsReviewed = 0 THEN s
     ELSE setItem(s, Append(s.sessions, session))

saveStudySession(s) ==
  LET session == IF s.isReviewingHard
                 THEN Session(s.reviewResults.easy, s.reviewResults.medium,
                              s.reviewResults.hard)
                 ELSE Session(progress(s).easy, progress(s).medium, progress(s).hard)
  IN IF session.cardsReviewed = 0 THEN s
     ELSE [setItem(s, Append(s.sessions, session)) EXCEPT !.thrown = FALSE]

\* variant: no favorite survives the restart
handleRestartDroppingFavorites(s) ==
  LET saved == IF progress(s).reviewed > 0 THEN saveStudySession(s) ELSE s
      resetCards ==
        [i \in 1..Len(initialCards) |->
           [initialCards[i] EXCEPT
              !.id = i,
              !.favorite = FALSE,
              !.difficulty = "none", !.dueDate = NoVal, !.interval = NoVal,
              !.easeFactor = NoVal, !.repetitions = NoVal, !.lastReviewed = NoVal]]
  IN [saved EXCEPT
        !.isReviewingHard = FALSE, !.currentIndex = 0, !.showReviewPrompt = FALSE,
        !.showScoreboard = FALSE, !.reviewedCardIds = {}, !.reviewResults = NoResults,
        !.searchQuery = <<>>, !.filterType = "all",
        !.cards = resetCards, !.cardsSet = TRUE, !.stored = resetCards]

\* variant: the due date and the interval survive the restart
handleRestartKeepingSchedule(s) ==
  LET saved == IF progress(s).reviewed > 0 THEN saveStudySession(s) ELSE s
      resetCards ==
        [i \in 1..Len(initialCards) |->
           [initialCards[i] EXCEPT
              !.id = i,
              !.favorite = IF \E k \in 1..Len(s.cards) : s.cards[k].id = i
                           THEN s.cards[CHOOSE k \in 1..Len(s.cards) :
                                          /\ s.cards[k].id = i
                                          /\ \A j \in 1..(k - 1) : s.cards[j].id # i].favorite
                           ELSE FALSE,
              !.difficulty = "none",
              !.dueDate = s.cards[i].dueDate, !.interval = s.cards[i].interval,
              !.easeFactor = NoVal, !.repetitions = NoVal, !.lastReviewed = NoVal]]
  IN [saved EXCEPT
        !.isReviewingHard = FALSE, !.currentIndex = 0, !.showReviewPrompt = FALSE,
        !.showScoreboard = FALSE, !.reviewedCardIds = {}, !.reviewResults = NoResults,
        !.searchQuery = <<>>, !.filterType = "all",
        !.cards = resetCards, !.cardsSet = TRUE, !.stored = resetCards]

\* variant: the date of the last review survives the restart
handleRestartKeepingLastReviewed(s) ==
  LET saved == IF progress(s).reviewed > 0 THEN saveStudySession(s) ELSE s
      resetCards ==
        [i \in 1..Len(initialCards) |->
           [initialCards[i] EXCEPT
              !.id = i,
              !.favorite = IF \E k \in 1..Len(s.cards) : s.cards[k].id = i
                           THEN s.cards[CHOOSE k \in 1..Len(s.cards) :
                                          /\ s.cards[k].id = i
                                          /\ \A j \in 1..(k - 1) : s.cards[j].id # i].favorite
                           ELSE FALSE,
              !.difficulty = "none", !.dueDate = NoVal, !.interval = NoVal,
              !.easeFactor = NoVal, !.repetitions = NoVal,
              !.lastReviewed = s.cards[i].lastReviewed]]
  IN IF saved.thrown THEN saved
     ELSE saveSRSData(
            [saved EXCEPT
               !.isReviewingHard = FALSE, !.currentIndex = 0,
               !.showReviewPrompt = FALSE, !.showScoreboard = FALSE,
               !.reviewedCardIds = {}, !.reviewResults = NoResults,
               !.searchQuery = <<>>, !.filterType = "all",
               !.cards = resetCards, !.cardsSet = TRUE],
            resetCards)

\* variant: the restart writes no session record
handleRestartNotSaving(s) ==
  LET resetCards ==
        [i \in 1..Len(initialCards) |->
           [initialCards[i] EXCEPT
              !.id = i,
              !.favorite = IF \E k \in 1..Len(s.cards) : s.cards[k].id = i
                           THEN s.cards[CHOOSE k \in 1..Len(s.cards) :
                                          /\ s.cards[k].id = i
                                          /\ \A j \in 1..(k - 1) : s.cards[j].id # i].favorite
                           ELSE FALSE,
              !.difficulty = "none", !.dueDate = NoVal, !.interval = NoVal,
              !.easeFactor = NoVal, !.repetitions = NoVal, !.lastReviewed = NoVal]]
  IN saveSRSData(
       [s EXCEPT
          !.isReviewingHard = FALSE, !.currentIndex = 0,
          !.showReviewPrompt = FALSE, !.showScoreboard = FALSE,
          !.reviewedCardIds = {}, !.reviewResults = NoResults,
          !.searchQuery = <<>>, !.filterType = "all",
          !.cards = resetCards, !.cardsSet = TRUE],
       resetCards)

handleRestart(s) ==
  LET saved == IF progress(s).reviewed > 0 THEN saveStudySession(s) ELSE s
      resetCards ==
        [i \in 1..Len(initialCards) |->
           [initialCards[i] EXCEPT
              !.id = i,
              !.favorite = IF \E k \in 1..Len(s.cards) : s.cards[k].id = i
                           THEN s.cards[CHOOSE k \in 1..Len(s.cards) :
                                          /\ s.cards[k].id = i
                                          /\ \A j \in 1..(k - 1) : s.cards[j].id # i].favorite
                           ELSE FALSE,
              !.difficulty = "none", !.dueDate = NoVal, !.interval = NoVal,
              !.easeFactor = NoVal, !.repetitions = NoVal, !.lastReviewed = NoVal]]
  IN IF saved.thrown THEN saved
     ELSE saveSRSData(
            [saved EXCEPT
               !.isReviewingHard = FALSE, !.currentIndex = 0,
               !.showReviewPrompt = FALSE, !.showScoreboard = FALSE,
               !.reviewedCardIds = {}, !.reviewResults = NoResults,
               !.searchQuery = <<>>, !.filterType = "all",
               !.cards = resetCards, !.cardsSet = TRUE],
            resetCards)

\* variant: the fresh deck is numbered from 0
clearStorageDataFromZero(s) ==
  [s EXCEPT
     !.stored = <<>>, !.sessions = <<>>,
     !.cards = [i \in 1..Len(initialCards) |-> [initialCards[i] EXCEPT !.id = i - 1]],
     !.cardsSet = TRUE,
     !.isReviewingHard = FALSE, !.currentIndex = 0, !.showReviewPrompt = FALSE,
     !.showScoreboard = FALSE, !.reviewedCardIds = {}, !.reviewResults = NoResults,
     !.searchQuery = <<>>, !.filterType = "all"]

\* variant: the session log is left in the store
clearStorageDataKeepingLog(s) ==
  [s EXCEPT
     !.stored = <<>>,
     !.cards = [i \in 1..Len(initialCards) |-> [initialCards[i] EXCEPT !.id = i]],
     !.cardsSet = TRUE,
     !.isReviewingHard = FALSE, !.currentIndex = 0, !.showReviewPrompt = FALSE,
     !.showScoreboard = FALSE, !.reviewedCardIds = {}, !.reviewResults = NoResults,
     !.searchQuery = <<>>, !.filterType = "all"]

clearStorageData(s) ==
  [s EXCEPT
     !.stored = <<>>, !.sessions = <<>>,
     !.cards = [i \in 1..Len(initialCards) |-> [initialCards[i] EXCEPT !.id = i]],
     !.cardsSet = TRUE,
     !.isReviewingHard = FALSE, !.currentIndex = 0, !.showReviewPrompt = FALSE,
     !.showScoreboard = FALSE, !.reviewedCardIds = {}, !.reviewResults = NoResults,
     !.searchQuery = <<>>, !.filterType = "all"]

handleSkipHardReview(s) ==
  LET saved == saveStudySession(s)
  IN IF saved.thrown THEN saved
     ELSE [saved EXCEPT
             !.showReviewPrompt = FALSE, !.currentIndex = 0,
             !.searchQuery = <<>>, !.filterType = "all"]

\* variant: the review starts whether or not a card is hard
handleReviewHardCardsUnguarded(s) ==
  LET hardCardsToReview == SelectSeq(s.cards, LAMBDA c : c.difficulty = "hard")
  IN [s EXCEPT
        !.reviewResults = NoResults, !.reviewedCardIds = {},
        !.hardCardsForReview = hardCardsToReview, !.reviewIndex = 0,
        !.isReviewingHard = TRUE]

handleReviewHardCards(s) ==
  LET hardCardsToReview == SelectSeq(s.cards, LAMBDA c : c.difficulty = "hard")
  IN IF Len(hardCardsToReview) = 0 THEN s
     ELSE [s EXCEPT
             !.reviewResults = NoResults, !.reviewedCardIds = {},
             !.hardCardsForReview = hardCardsToReview, !.reviewIndex = 0,
             !.isReviewingHard = TRUE]

handleStartHardReview(s) ==
  [handleReviewHardCards(s) EXCEPT !.showReviewPrompt = FALSE]

\* variant: a card rated hard stays on display
handleReviewDifficultySelectStayingOnHard(s, difficulty) ==
  IF ~s.isReviewingHard \/ Len(s.hardCardsForReview) = 0 THEN s
  ELSE
    LET hasCard == s.reviewIndex < Len(s.hardCardsForReview)
        id == IF hasCard THEN s.hardCardsForReview[s.reviewIndex + 1].id ELSE NoVal
        rated == IF s.useSRS
                 THEN RateWithSRS(s.cards, id, difficulty, s.now)
                 ELSE RateWithoutSRS(s.cards, id, difficulty)
        nextIndex == IF difficulty = "hard" THEN s.reviewIndex ELSE s.reviewIndex + 1
        p == [s EXCEPT
                !.reviewResults[difficulty] = @ + 1,
                !.reviewedCardIds = IF hasCard /\ id # 0 THEN @ \cup {id} ELSE @,
                !.cards = rated, !.cardsSet = TRUE]
    IN IF nextIndex >= Len(s.hardCardsForReview)
       THEN [p EXCEPT !.showScoreboard = TRUE]
       ELSE [p EXCEPT !.reviewIndex = nextIndex]

handleReviewDifficultySelect(s, difficulty) ==
  IF ~s.isReviewingHard \/ Len(s.hardCardsForReview) = 0 THEN s
  ELSE
    LET hasCard == s.reviewIndex < Len(s.hardCardsForReview)
        \* currentCard?.id: undefined equals no card's id
        id == IF hasCard THEN s.hardCardsForReview[s.reviewIndex + 1].id ELSE NoVal
        rated == IF s.useSRS
                 THEN RateWithSRS(s.cards, id, difficulty, s.now)
                 ELSE RateWithoutSRS(s.cards, id, difficulty)
        nextIndex == s.reviewIndex + 1
        p == [s EXCEPT
                !.reviewResults[difficulty] = @ + 1,
                !.reviewedCardIds = IF hasCard /\ id # 0 THEN @ \cup {id} ELSE @,
                !.cards = rated, !.cardsSet = TRUE]
    IN IF nextIndex >= Len(s.hardCardsForReview)
       THEN [p EXCEPT !.showScoreboard = TRUE]
       ELSE [p EXCEPT !.reviewIndex = nextIndex]

\* variant: the counters of the pass before are kept
handleRetryHardCardsKeepingCounts(s) ==
  LET updatedHardCards == SelectSeq(s.cards, LAMBDA c : c.difficulty = "hard")
  IN IF Len(updatedHardCards) = 0
     THEN [s EXCEPT !.showScoreboard = FALSE, !.isReviewingHard = FALSE]
     ELSE [s EXCEPT
             !.reviewedCardIds = {}, !.showScoreboard = FALSE,
             !.hardCardsForReview = updatedHardCards, !.reviewIndex = 0]

\* variant: the pass before is walked again
handleRetryHardCardsSameSnapshot(s) ==
  LET updatedHardCards == SelectSeq(s.cards, LAMBDA c : c.difficulty = "hard")
  IN IF Len(updatedHardCards) = 0
     THEN [s EXCEPT !.showScoreboard = FALSE, !.isReviewingHard = FALSE]
     ELSE [s EXCEPT
             !.reviewResults = NoResults, !.reviewedCardIds = {},
             !.showScoreboard = FALSE, !.reviewIndex = 0]

handleRetryHardCards(s) ==
  LET updatedHardCards == SelectSeq(s.cards, LAMBDA c : c.difficulty = "hard")
  IN IF Len(updatedHardCards) = 0
     THEN [s EXCEPT !.showScoreboard = FALSE, !.isReviewingHard = FALSE]
     ELSE [s EXCEPT
             !.reviewResults = NoResults, !.reviewedCardIds = {},
             !.showScoreboard = FALSE,
             !.hardCardsForReview = updatedHardCards, !.reviewIndex = 0]

\* variant: leaving the review forgets the ratings
handleExitReviewForgettingRatings(s) ==
  [s EXCEPT
     !.isReviewingHard = FALSE, !.showScoreboard = FALSE,
     !.reviewedCardIds = {}, !.reviewIndex = 0, !.hardCardsForReview = <<>>,
     !.cards = [i \in 1..Len(s.cards) |-> [s.cards[i] EXCEPT !.difficulty = "none"]],
     !.cardsSet = TRUE]

\* variant: leaving the review leaves the scoreboard flag as it is
handleExitReviewLeavingScoreboard(s) ==
  [s EXCEPT
     !.isReviewingHard = FALSE,
     !.reviewedCardIds = {}, !.reviewIndex = 0, !.hardCardsForReview = <<>>]

handleExitReview(s) ==
  [s EXCEPT
     !.isReviewingHard = FALSE, !.showScoreboard = FALSE,
     !.reviewedCardIds = {}, !.reviewIndex = 0, !.hardCardsForReview = <<>>]

\* ------------------------------------------------------ render and effects
\* which of the component's return statements a state renders
Screen(s) ==
  IF s.isReviewingHard
  THEN IF s.showScoreboard THEN "scoreboard"
       ELSE IF Len(s.hardCardsForReview) = 0 \/ s.reviewIndex >= Len(s.hardCardsForReview)
            THEN "noHardCards" ELSE "review"
  ELSE IF s.showReviewPrompt THEN "prompt"
  ELSE IF Len(getFilteredCards(s)) = 0 THEN "empty"
  ELSE "deck"

\* the effects declared before every return: the deck is saved when it or
\* useSRS changed, and a cursor past a non-empty view is set back to 0
saveEffect(prev, p) ==
  IF p.useSRS /\ (p.cardsSet \/ ~prev.useSRS) THEN saveSRSData(p, p.cards) ELSE p

boundsEffect(p) ==
  LET currentCards == getFilteredCards(p)
  IN IF Len(currentCards) > 0 /\ p.currentIndex >= Len(currentCards)
     THEN [p EXCEPT !.currentIndex = 0] ELSE p

Effects(prev, p) ==
  [boundsEffect(saveEffect(prev, p)) EXCEPT !.cardsSet = FALSE, !.thrown = FALSE]

\* the effect declared inside the scoreboard branch
scoreboardEffect(p) ==
  LET cardsReviewed == p.reviewResults.easy + p.reviewResults.medium + p.reviewResults.hard
  IN IF cardsReviewed = 0 THEN p
     ELSE [setItem(p, Append(p.sessions,
                             Session(p.reviewResults.easy, p.reviewResults.medium,
                                     p.reviewResults.hard)))
             EXCEPT !.thrown = FALSE]

\* The scoreboard branch calls useEffect after the hooks every other render
\* calls: the render has one hook more than the one before it.  What the
\* runtime does with it is not the component's choice: it rejects the render
\* ("throws"), runs the effect as a newly mounted one ("mount"), or, where
\* the hook has run before, finds its empty dependency list unchanged and
\* does not run it ("kept").
HookOutcomes(p) ==
  IF p.isReviewingHard /\ p.showScoreboard
  THEN IF p.hookMounted THEN {"throws", "mount", "kept"} ELSE {"throws", "mount"}
  ELSE {"none"}

Unmounted(p) == [p EXCEPT !.crashed = TRUE, !.cardsSet = FALSE, !.thrown = FALSE]

Render(prev, p, outcome) ==
  LET screen == Screen(p) IN
  IF p.crashed THEN Unmounted(p)
  ELSE IF screen = "scoreboard"
  THEN CASE outcome = "throws" -> Unmounted(p)
         [] outcome = "mount" ->
              Effects(prev, [scoreboardEffect(p) EXCEPT !.hookMounted = TRUE])
         [] OTHER -> Effects(prev, p)
  \* the deck screen reads currentCards[currentIndex].front
  ELSE IF screen = "deck" /\ p.currentIndex >= Len(getFilteredCards(p))
  THEN Unmounted(p)
  ELSE Effects(prev, p)

\* The keydown listener is installed by an effect whose dependencies are
\* showReviewPrompt and showScoreboard: it holds handleNext and
\* handlePrevious of the last render in which one of the two changed (or of
\* the first render), with everything those handlers read.
Closure(p) ==
  [currentIndex |-> p.currentIndex, cards |-> p.cards,
   isReviewingHard |-> p.isReviewingHard, reviewedCardIds |-> p.reviewedCardIds,
   filterType |-> p.filterType, searchQuery |-> p.searchQuery,
   useSRS |-> p.useSRS, now |-> p.now,
   showReviewPrompt |-> p.showReviewPrompt, showScoreboard |-> p.showScoreboard]

keyboardEffect(held, prev, p) ==
  IF p.showReviewPrompt # prev.showReviewPrompt \/ p.showScoreboard # prev.showScoreboard
  THEN Closure(p) ELSE held

handleKeyPress(c, p, code) ==
  IF c.showReviewPrompt \/ c.showScoreboard THEN p
  ELSE CASE code = "ArrowLeft" -> handlePrevious(c, p)
         [] code = "ArrowRight" -> handleNext(c, p)
         [] OTHER -> p

\* loadSRSData: the stored fields of a card win over the baseline's, the
\* baseline's text wins; nothing stored gives the baseline
loadSRSData(persisted, baseline) ==
  [i \in 1..Len(baseline) |->
     IF \E k \in 1..Len(persisted) : persisted[k].id = baseline[i].id
     THEN LET k == CHOOSE k \in 1..Len(persisted) : persisted[k].id = baseline[i].id
          IN [persisted[k] EXCEPT !.front = baseline[i].front, !.back = baseline[i].back]
     ELSE baseline[i]]

\* ------------------------------------------------------------------ Init
Mounted(budget) ==
  /\ currentIndex = 0
  /\ cards = loadSRSData(<<>>, initialCards)
  /\ isReviewingHard = FALSE
  /\ showReviewPrompt = FALSE
  /\ showScoreboard = FALSE
  /\ reviewedCardIds = {}
  /\ reviewResults = NoResults
  /\ searchQuery = <<>>
  /\ filterType = "all"
  /\ useSRS = TRUE
  /\ hardCardsForReview = <<>>
  /\ reviewIndex = 0
  /\ sessions = <<>>
  /\ stored = loadSRSData(<<>>, initialCards)
  /\ now = 0
  /\ crashed = FALSE
  /\ hookMounted = FALSE
  /\ storageFull = FALSE
  /\ kbd = Closure([currentIndex |-> 0, cards |-> loadSRSData(<<>>, initialCards),
                    isReviewingHard |-> FALSE, reviewedCardIds |-> {},
                    filterType |-> "all", searchQuery |-> <<>>, useSRS |-> TRUE,
                    now |-> 0, showReviewPrompt |-> FALSE, showScoreboard |-> FALSE])
  /\ passRated = <<>>
  /\ ratedInPass = FALSE
  /\ scheduled = 0
  /\ lastRating = [id \in 1..NumCards |-> "none"]
  /\ passNo = 0
  /\ stepsLeft = budget

Init == Mounted(MaxSteps)

\* --------------------------------------------------------------- actions
Apply(r) ==
  /\ currentIndex' = r.currentIndex
  /\ cards' = r.cards
  /\ isReviewingHard' = r.isReviewingHard
  /\ showReviewPrompt' = r.showReviewPrompt
  /\ showScoreboard' = r.showScoreboard
  /\ reviewedCardIds' = r.reviewedCardIds
  /\ reviewResults' = r.reviewResults
  /\ searchQuery' = r.searchQuery
  /\ filterType' = r.filterType
  /\ useSRS' = r.useSRS
  /\ hardCardsForReview' = r.hardCardsForReview
  /\ reviewIndex' = r.reviewIndex
  /\ sessions' = r.sessions
  /\ stored' = r.stored
  /\ now' = r.now
  /\ crashed' = r.crashed
  /\ hookMounted' = r.hookMounted
  /\ storageFull' = r.storageFull

\* the bound of the model on the session log
WithinBounds(r) == Len(r.sessions) <= MaxLog

\* the bound of the model on the ratings that reach the scheduler
Scheduling ==
  /\ useSRS => scheduled < MaxScheduled
  /\ scheduled' = IF useSRS THEN scheduled + 1 ELSE scheduled

\* the event: handler result p, then the render and its effects
Event(p) ==
  /\ stepsLeft > 0
  /\ stepsLeft' = stepsLeft - 1
  /\ \E outcome \in HookOutcomes(p) :
       LET r == Render(Cur, p, outcome)
       IN /\ WithinBounds(r)
          /\ Apply(r)
          /\ kbd' = IF r.crashed THEN kbd ELSE keyboardEffect(kbd, Cur, p)

\* the screen on display, by the tests of Screen in their order
OnDeck ==
  ~crashed /\ ~isReviewingHard /\ ~showReviewPrompt /\ Len(getFilteredCards(Cur)) > 0
OnPrompt == ~crashed /\ ~isReviewingHard /\ showReviewPrompt
OnReview ==
  /\ ~crashed /\ isReviewingHard /\ ~showScoreboard
  /\ reviewIndex < Len(hardCardsForReview)
OnScoreboard == ~crashed /\ isReviewingHard /\ showScoreboard

ClickNext ==
  /\ OnDeck
  /\ Event(handleNext(Cur, Cur))
  /\ UNCHANGED <<passRated, ratedInPass, scheduled, lastRating, passNo>>

ClickPrevious ==
  /\ OnDeck
  /\ Event(handlePrevious(Cur, Cur))
  /\ UNCHANGED <<passRated, ratedInPass, scheduled, lastRating, passNo>>

RateCard(difficulty) ==
  /\ OnDeck
  /\ Scheduling
  /\ Event(handleDifficultySelect(Cur, difficulty))
  /\ ratedInPass' = TRUE
  /\ lastRating' = [lastRating EXCEPT
                      ![getFilteredCards(Cur)[currentIndex + 1].id] = difficulty]
  /\ UNCHANGED <<passRated, passNo>>

ToggleFavorite ==
  /\ OnDeck
  /\ Event(handleToggleFavorite(Cur))
  /\ UNCHANGED <<passRated, ratedInPass, scheduled, lastRating, passNo>>

ChangeSearch(q) ==
  /\ OnDeck
  /\ q # searchQuery
  /\ Event([Cur EXCEPT !.searchQuery = q, !.currentIndex = 0])
  /\ UNCHANGED <<passRated, ratedInPass, scheduled, lastRating, passNo>>

\* the 'due' option is offered only while useSRS is on
ChangeFilter(f) ==
  /\ OnDeck
  /\ f # filterType
  /\ f = "due" => useSRS
  /\ Event([Cur EXCEPT !.filterType = f, !.currentIndex = 0])
  /\ UNCHANGED <<passRated, ratedInPass, scheduled, lastRating, passNo>>

ClearFilters ==
  /\ ~crashed /\ ~isReviewingHard /\ ~showReviewPrompt
  /\ filterType # "all" \/ searchQuery # <<>>
  /\ Event([Cur EXCEPT !.filterType = "all", !.searchQuery = <<>>])
  /\ UNCHANGED <<passRated, ratedInPass, scheduled, lastRating, passNo>>

ToggleSRS ==
  /\ OnDeck
  /\ Event([Cur EXCEPT !.useSRS = ~useSRS])
  /\ UNCHANGED <<passRated, ratedInPass, scheduled, lastRating, passNo>>

Restart ==
  /\ ~crashed /\ ~isReviewingHard
  /\ Event(handleRestart(Cur))
  /\ passRated' = <<>>
  /\ ratedInPass' = FALSE
  /\ lastRating' = [id \in 1..NumCards |-> "none"]
  /\ UNCHANGED <<scheduled, passNo>>

ResetAllData ==
  /\ OnDeck
  /\ Event(clearStorageData(Cur))
  /\ passRated' = <<>>
  /\ ratedInPass' = FALSE
  /\ lastRating' = [id \in 1..NumCards |-> "none"]
  /\ UNCHANGED <<scheduled, passNo>>

SkipHardReview ==
  /\ OnPrompt
  /\ Event(handleSkipHardReview(Cur))
  /\ ratedInPass' = FALSE
  /\ UNCHANGED <<passRated, scheduled, lastRating, passNo>>

StartHardReview ==
  /\ OnPrompt
  /\ Event(handleStartHardReview(Cur))
  /\ passRated' = <<>>
  /\ ratedInPass' = FALSE
  /\ passNo' = IF isReviewingHard' THEN 1 ELSE 0
  /\ UNCHANGED <<scheduled, lastRating>>

RateReviewCard(difficulty) ==
  /\ OnReview
  /\ Event(handleReviewDifficultySelect(Cur, difficulty))
  /\ Scheduling
  /\ passRated' = Append(passRated, hardCardsForReview[reviewIndex + 1].id)
  /\ lastRating' = [lastRating EXCEPT
                      ![hardCardsForReview[reviewIndex + 1].id] = difficulty]
  /\ UNCHANGED <<ratedInPass, passNo>>

ToggleFavoriteInReview ==
  /\ OnReview
  /\ Event(handleToggleFavoriteOf(Cur, hardCardsForReview[reviewIndex + 1]))
  /\ UNCHANGED <<passRated, ratedInPass, scheduled, lastRating, passNo>>

RetryHardCards ==
  /\ OnScoreboard
  /\ Event(handleRetryHardCards(Cur))
  /\ passRated' = <<>>
  /\ passNo' = IF isReviewingHard' THEN passNo + 1 ELSE 0
  /\ UNCHANGED <<ratedInPass, scheduled, lastRating>>

ExitReview ==
  /\ ~crashed /\ isReviewingHard
  /\ Event(handleExitReview(Cur))
  /\ passRated' = <<>>
  /\ passNo' = 0
  /\ UNCHANGED <<ratedInPass, scheduled, lastRating>>

\* an arrow key, wherever the focus is: the listener is on the window
PressKey(code) ==
  /\ ~crashed /\ ~showReviewPrompt /\ ~showScoreboard
  /\ Event(handleKeyPress(kbd, Cur, code))
  /\ UNCHANGED <<passRated, ratedInPass, scheduled, lastRating, passNo>>

\* a day passes and the component renders again
Tick ==
  /\ ~crashed
  /\ now < MaxNow
  /\ Event([Cur EXCEPT !.now = now + 1])
  /\ UNCHANGED <<passRated, ratedInPass, scheduled, lastRating, passNo>>

Next ==
  \/ ClickNext
  \/ ClickPrevious
  \/ \E d \in Ratings : RateCard(d)
  \/ ToggleFavorite
  \/ \E q \in Queries : ChangeSearch(q)
  \/ \E f \in Filters : ChangeFilter(f)
  \/ ClearFilters
  \/ ToggleSRS
  \/ Restart
  \/ ResetAllData
  \/ SkipHardReview
  \/ StartHardReview
  \/ \E d \in Ratings : RateReviewCard(d)
  \/ ToggleFavoriteInReview
  \/ RetryHardCards
  \/ ExitReview
  \/ \E code \in {"ArrowLeft", "ArrowRight"} : PressKey(code)
  \/ Tick

Spec == Init /\ [][Next]_vars

\* The hard-card review and the browsing pass that leads to it, for a user
\* who leaves the search box and the filter alone: the review is entered
\* from the prompt, which handleNext raises only under filter 'all' with an
\* empty query, and no review screen offers either control.
NextReview ==
  \/ ClickNext
  \/ ClickPrevious
  \/ \E d \in Ratings : RateCard(d)
  \/ ToggleFavorite
  \/ ToggleSRS
  \/ Restart
  \/ ResetAllData
  \/ SkipHardReview
  \/ StartHardReview
  \/ \E d \in Ratings : RateReviewCard(d)
  \/ ToggleFavoriteInReview
  \/ RetryHardCards
  \/ ExitReview
  \/ \E code \in {"ArrowLeft", "ArrowRight"} : PressKey(code)

SpecReview == Mounted(MaxReviewSteps) /\ [][NextReview]_vars

\* the store runs full or room is made in it: the quota is shared with
\* whatever else the origin keeps there
Quota ==
  /\ ~crashed
  /\ storageFull' = ~storageFull
  /\ UNCHANGED <<currentIndex, cards, isReviewingHard, showReviewPrompt,
                 showScoreboard, reviewedCardIds, reviewResults, searchQuery,
                 filterType, useSRS, hardCardsForReview, reviewIndex, sessions,
                 stored, now, crashed, hookMounted, kbd, passRated, ratedInPass,
                 scheduled, lastRating, passNo, stepsLeft>>

\* the same session with a store that may reject writes
NextStorage ==
  \/ ClickNext
  \/ ClickPrevious
  \/ \E d \in Ratings : RateCard(d)
  \/ ToggleFavorite
  \/ ToggleSRS
  \/ Restart
  \/ ResetAllData
  \/ SkipHardReview
  \/ StartHardReview
  \/ \E d \in Ratings : RateReviewCard(d)
  \/ ToggleFavoriteInReview
  \/ RetryHardCards
  \/ ExitReview
  \/ \E code \in {"ArrowLeft", "ArrowRight"} : PressKey(code)
  \/ Quota

SpecStorage == Mounted(MaxStorageSteps) /\ [][NextStorage]_vars

\* The scheduler on its own: the deck starts new, any card is rated with the
\* scheduler at any day of the clock, as setCards(prevCards =>
\* prevCards.map(card => card.id === id ? calculateNextReview(card,
\* difficulty) : card)) applies it, and days pass in between.
ApplyRating(i, rating) ==
  /\ stepsLeft > 0
  /\ stepsLeft' = stepsLeft - 1
  /\ cards' = RateWithSRS(cards, cards[i].id, rating, now)
  /\ UNCHANGED <<currentIndex, isReviewingHard, showReviewPrompt, showScoreboard,
                 reviewedCardIds, reviewResults, searchQuery, filterType, useSRS,
                 hardCardsForReview, reviewIndex, sessions, stored, now, crashed,
                 hookMounted, storageFull, kbd, passRated, ratedInPass, scheduled,
                 lastRating, passNo>>

Advance ==
  /\ now < MaxClock
  /\ now' = now + 1
  /\ UNCHANGED <<currentIndex, cards, isReviewingHard, showReviewPrompt,
                 showScoreboard, reviewedCardIds, reviewResults, searchQuery,
                 filterType, useSRS, hardCardsForReview, reviewIndex, sessions,
                 stored, crashed, hookMounted, storageFull, kbd, passRated,
                 ratedInPass, scheduled, lastRating, passNo, stepsLeft>>

NextScheduler ==
  \/ \E i \in 1..NumCards, rating \in Ratings : ApplyRating(i, rating)
  \/ Advance

SpecScheduler == Mounted(MaxReviews) /\ [][NextScheduler]_vars

\* ---------------------------------------------------------------- claims
Ids(cs) == [i \in 1..Len(cs) |-> cs[i].id]

Given(results) == results.easy + results.medium + results.hard

HasHard(cs) == \E i \in 1..Len(cs) : cs[i].difficulty = "hard"

\* C1: a review pass walks the snapshot taken at its entry, the deck's hard
\* cards of that moment: the cards rated so far in the pass are the first
\* cards of the snapshot in its order, each once, one per rating whatever the
\* rating was, and until the last one is rated a card of the snapshot is on
\* display; a card rated hard again is not shown a second time in the pass.
C1_PassWalksSnapshot ==
  isReviewingHard =>
    /\ Len(passRated) <= Len(hardCardsForReview)
    /\ passRated = SubSeq(Ids(hardCardsForReview), 1, Len(passRated))
    /\ \A i, j \in 1..Len(passRated) : i # j => passRated[i] # passRated[j]
    /\ Len(passRated) = IF showScoreboard THEN Len(hardCardsForReview) ELSE reviewIndex
    /\ ~showScoreboard => reviewIndex < Len(hardCardsForReview)
    /\ passRated = <<>> => Ids(hardCardsForReview) = Ids(hardCards(Cur))

\* a pass of two cards whose first card was rated hard again: the second is
\* on display
C1_Witness ==
  /\ OnReview
  /\ Len(hardCardsForReview) = 2
  /\ reviewIndex = 1
  /\ reviewResults.hard = 1
  /\ lastRating[hardCardsForReview[1].id] = "hard"

\* C2: during a review pass the three counters add up to the number of
\* cards rated so far in the pass, and the scoreboard flag is set exactly
\* when that sum is the length of the snapshot.
C2_CountersMatchRatings ==
  isReviewingHard =>
    /\ Given(reviewResults) = Len(passRated)
    /\ showScoreboard <=> Given(reviewResults) = Len(hardCardsForReview)

C2_Witness ==
  /\ OnScoreboard
  /\ Len(hardCardsForReview) = 2
  /\ reviewResults.easy = 1
  /\ reviewResults.hard = 1

\* C3: the prompt is raised exactly by a forward advance (Next, or the
\* advance after a rating) that wraps past the last card while the filter is
\* 'all', the query is empty and the deck, the rating just applied included,
\* has a hard card.
C3_PromptExactlyOnWrapWithHard ==
  [][(~showReviewPrompt /\ (ClickNext \/ \E d \in Ratings : RateCard(d))) =>
       (showReviewPrompt' <=>
          /\ currentIndex + 1 = Len(getFilteredCards(Cur))
          /\ filterType = "all"
          /\ searchQuery = <<>>
          /\ HasHard(cards'))]_vars

\* C4: a rating changes no card but its target and neither the order nor
\* the length of the deck, with the scheduler on or off; with the scheduler
\* off the target changes in its difficulty only.
RatingFrame(id, difficulty) ==
  /\ Len(cards') = Len(cards)
  /\ \A i \in 1..Len(cards) :
       IF cards[i].id # id THEN cards'[i] = cards[i]
       ELSE ~useSRS => cards'[i] = [cards[i] EXCEPT !.difficulty = difficulty]

C4_RatingFrame ==
  [][\A d \in Ratings :
       /\ RateCard(d) => RatingFrame(getFilteredCards(Cur)[currentIndex + 1].id, d)
       /\ RateReviewCard(d) => RatingFrame(hardCardsForReview[reviewIndex + 1].id, d)]_vars

\* a card the scheduler had reset (hard: no repetitions) rated easy with the
\* scheduler off: the difficulty is easy, the schedule is the old one
C4_Witness ==
  /\ ~useSRS
  /\ \E i \in 1..Len(cards) :
       /\ cards[i].difficulty = "easy"
       /\ cards[i].repetitions = 0
       /\ cards[i].interval = HardInterval

\* Wherever a rating can be given the card it goes to is in the view: the
\* browsing card is currentCards[currentIndex], the review card
\* hardCardsForReview[reviewIndex].
RatingTargetResolves ==
  /\ OnDeck => currentIndex < Len(getFilteredCards(Cur))
  /\ (~crashed /\ isReviewingHard /\ ~showScoreboard) =>
       reviewIndex < Len(hardCardsForReview)

\* C6: under the 'hard' filter with an empty query the view is the cards
\* whose last rating was hard, in deck order; the number the prompt reports
\* is the length of that view; so a card rated away from hard in a review
\* pass is not in the view afterwards.
HardView == getFilteredCards([Cur EXCEPT !.isReviewingHard = FALSE,
                                         !.filterType = "hard",
                                         !.searchQuery = <<>>])

C6_HardFilterIsLastRatedHard ==
  /\ HardView = SelectSeq(cards, LAMBDA c : lastRating[c.id] = "hard")
  /\ showReviewPrompt => Len(hardCards(Cur)) = Len(HardView)

\* after a pass in which one card went from hard to easy and one stayed hard
C6_Witness ==
  /\ OnScoreboard
  /\ reviewResults.easy = 1
  /\ reviewResults.hard = 1
  /\ Len(HardView) = 1

\* C7: leaving a review pass before its end appends the pass's counts to the
\* session log when a card was rated in it, and nothing when none was.
C7_ExitFlushesPartialPass ==
  [][(ExitReview /\ ~showScoreboard) =>
       sessions' = IF Given(reviewResults) > 0
                   THEN Append(sessions, Session(reviewResults.easy, reviewResults.medium,
                                                 reviewResults.hard))
                   ELSE sessions]_vars

\* C8: every pass that reaches the scoreboard, a retry pass included,
\* appends one record with that pass's counts to the session log.
C8_ScoreboardAppendsRecord ==
  [][(isReviewingHard /\ ~showScoreboard /\ showScoreboard') =>
       sessions' = Append(sessions, Session(reviewResults'.easy, reviewResults'.medium,
                                            reviewResults'.hard))]_vars

\* C9: Retry with a hard card in the deck starts a pass over the deck's
\* hard cards of that moment, counters at zero and reviewIndex 0; with none
\* it returns to browsing; Exit Review returns to browsing.
C9_RetryAndExit ==
  [][/\ RetryHardCards =>
          IF HasHard(cards)
          THEN /\ isReviewingHard' /\ ~showScoreboard'
               /\ hardCardsForReview' = hardCards(Cur)
               /\ reviewResults' = NoResults
               /\ reviewIndex' = 0
          ELSE ~isReviewingHard' /\ ~showScoreboard' /\ ~showReviewPrompt'
     /\ ExitReview => ~isReviewingHard' /\ ~showScoreboard' /\ ~showReviewPrompt']_vars

\* a second pass, over fewer cards than the deck has, none rated yet
C9_Witness ==
  /\ OnReview
  /\ passNo = 2
  /\ reviewIndex = 0
  /\ reviewResults = NoResults
  /\ Len(hardCardsForReview) = 1
  /\ \E i \in 1..Len(cards) : cards[i].difficulty = "easy"

\* C10: a browsing pass in which no card was rated adds no record that
\* repeats the ratings of the pass before it: Skip and Restart leave the
\* session log alone when nothing was rated since the last record.
C10_RecordCountsPassRatings ==
  [][((SkipHardReview \/ Restart) /\ ~ratedInPass) => sessions' = sessions]_vars

\* C11: a favorite toggle, on the browsing card or on the card under
\* review, flips the favorite flag of that card and nothing else: its rating
\* and schedule, every other card, the cursor and the session mode stay, and
\* a second toggle of the same card gives the deck back.
FavoriteFrame(id) ==
  /\ Len(cards') = Len(cards)
  /\ \A i \in 1..Len(cards) :
       cards'[i] = IF cards[i].id = id
                   THEN [cards[i] EXCEPT !.favorite = ~cards[i].favorite]
                   ELSE cards[i]
  /\ FlipFavorite(cards', id) = cards
  /\ currentIndex' = currentIndex
  /\ <<isReviewingHard', showReviewPrompt', showScoreboard'>> =
       <<isReviewingHard, showReviewPrompt, showScoreboard>>
  /\ <<reviewIndex', hardCardsForReview'>> = <<reviewIndex, hardCardsForReview>>

C11_ToggleFavoriteFrame ==
  [][/\ ToggleFavorite => FavoriteFrame(getFilteredCards(Cur)[currentIndex + 1].id)
     /\ ToggleFavoriteInReview =>
          FavoriteFrame(hardCardsForReview[reviewIndex + 1].id)]_vars

\* the card under review was made a favorite during the pass and is still
\* the hard, scheduled card it was
C11_Witness ==
  /\ OnReview
  /\ ~hardCardsForReview[reviewIndex + 1].favorite
  /\ \E i \in 1..Len(cards) :
       /\ cards[i].id = hardCardsForReview[reviewIndex + 1].id
       /\ cards[i].favorite
       /\ cards[i].difficulty = "hard"
       /\ cards[i].interval = HardInterval

\* C12: after a restart every card is unrated and unscheduled, the card at
\* position i is the baseline's i-th with id i, and it is a favorite exactly
\* when the card with id i was one before the restart.
WasFavorite(id) == \E k \in 1..Len(cards) : cards[k].id = id /\ cards[k].favorite

C12_RestartResetsDeck ==
  [][Restart =>
       /\ Len(cards') = Len(initialCards)
       /\ \A i \in 1..Len(initialCards) :
            cards'[i] = [id |-> i, front |-> initialCards[i].front,
                         back |-> initialCards[i].back, difficulty |-> "none",
                         favorite |-> WasFavorite(i), dueDate |-> NoVal,
                         interval |-> NoVal, easeFactor |-> NoVal,
                         repetitions |-> NoVal, lastReviewed |-> NoVal]]_vars

\* a restart that wrote a session record and kept a favorite
C12_Witness ==
  /\ ~crashed
  /\ sessions # <<>>
  /\ \A i \in 1..Len(cards) : cards[i].difficulty = "none" /\ cards[i].repetitions = NoVal
  /\ \E i \in 1..Len(cards) : cards[i].favorite

\* C13: right after a restart every card is due: with the scheduler on, the
\* view under the 'due' filter and an empty query is the whole deck.
DueViewOf(cs, t) ==
  getFilteredCards([cards |-> cs, now |-> t, isReviewingHard |-> FALSE,
                    reviewedCardIds |-> {}, filterType |-> "due",
                    useSRS |-> TRUE, searchQuery |-> <<>>])

C13_AllDueAfterRestart ==
  [][Restart => DueViewOf(cards', now') = cards']_vars

\* a deck that had a scheduled card, restarted
C13_Witness ==
  /\ ~crashed
  /\ useSRS
  /\ scheduled > 0
  /\ sessions # <<>>
  /\ \A i \in 1..Len(cards) : cards[i].dueDate = NoVal
  /\ DueViewOf(cards, now) = cards

\* C14: on the deck screen, with a view of n cards and the cursor at i, a
\* forward advance (Next button or right arrow) sets the cursor to
\* (i + 1) mod n unless it raises the prompt, and a backward advance
\* (Previous button or left arrow) sets it to (i - 1 + n) mod n.
C14_AdvanceWrapsFromCurrentCursor ==
  [][LET n == Len(getFilteredCards(Cur)) IN
     /\ (OnDeck /\ (ClickNext \/ PressKey("ArrowRight"))) =>
          \/ showReviewPrompt' /\ currentIndex' = currentIndex
          \/ ~showReviewPrompt' /\ currentIndex' = (currentIndex + 1) % n
     /\ (OnDeck /\ (ClickPrevious \/ PressKey("ArrowLeft"))) =>
          currentIndex' = (currentIndex - 1 + n) % n]_vars

\* C15: while the browsing view is empty, a navigation (buttons or arrow
\* keys), a rating and a favorite toggle change neither the deck, the cursor
\* nor the session mode, and none of them makes the component fail.
EmptyView ==
  ~crashed /\ ~isReviewingHard /\ ~showReviewPrompt /\ Len(getFilteredCards(Cur)) = 0

C15_EmptyViewNoOp ==
  [][(/\ EmptyView
      /\ \/ ClickNext \/ ClickPrevious \/ ToggleFavorite
         \/ \E d \in Ratings : RateCard(d)
         \/ \E code \in {"ArrowLeft", "ArrowRight"} : PressKey(code)) =>
       /\ cards' = cards
       /\ currentIndex' = currentIndex
       /\ <<isReviewingHard', showReviewPrompt', showScoreboard'>> =
            <<isReviewingHard, showReviewPrompt, showScoreboard>>
       /\ ~crashed']_vars

\* C16: when a rating given with the scheduler on, in browsing or in a
\* review pass, or a restart has completed, the deck in the store is the
\* deck in memory.
C16_StoreFollowsDeck ==
  [][(\/ useSRS /\ \E d \in Ratings : RateCard(d) \/ RateReviewCard(d)
      \/ Restart) =>
       stored' = cards']_vars

\* what a state holds in memory: everything but the store and its condition
InMemory(s) ==
  [s EXCEPT !.sessions = <<>>, !.stored = <<>>, !.storageFull = FALSE]

\* the state with room in the store
Free == [Cur EXCEPT !.storageFull = FALSE]

\* the in-memory states the operation with result p ends in when its
\* writes succeed
AsWritten(p) == {InMemory(Render(Free, p, o)) : o \in HookOutcomes(p)}

\* C17: an operation whose write to the store fails (deck save or
\* session-log append) ends with the in-memory deck, cursor and session
\* mode it ends with when the write succeeds.
C17_FailedWriteDoesNotAbort ==
  [][storageFull =>
       /\ Restart => InMemory(Cur') \in AsWritten(handleRestart(Free))
       /\ SkipHardReview => InMemory(Cur') \in AsWritten(handleSkipHardReview(Free))
       /\ ExitReview => InMemory(Cur') \in AsWritten(handleExitReview(Free))
       /\ ToggleSRS => InMemory(Cur') \in AsWritten([Free EXCEPT !.useSRS = ~useSRS])
       /\ ToggleFavorite => InMemory(Cur') \in AsWritten(handleToggleFavorite(Free))
       /\ \A d \in Ratings :
            /\ RateCard(d) =>
                 InMemory(Cur') \in AsWritten(handleDifficultySelect(Free, d))
            /\ RateReviewCard(d) =>
                 InMemory(Cur') \in AsWritten(handleReviewDifficultySelect(Free, d))]_vars

\* reached: the deck was rated with the scheduler on and a full store, the
\* component is on screen and the store still holds the deck from before
C17_Witness ==
  /\ storageFull /\ useSRS /\ ~crashed
  /\ \E id \in 1..NumCards : lastRating[id] # "none"
  /\ cards # stored

\* the scheduling fields of a card that are set
Scheduled(card) ==
  {f \in {"dueDate", "interval", "easeFactor", "repetitions", "lastReviewed"} :
     card[f] # NoVal}

\* C18: every card of the deck is fully new or fully scheduled: dueDate,
\* interval, easeFactor, repetitions and lastReviewed are all set or all
\* absent, whatever ratings (scheduler on or off), toggles and resets came
\* before.
C18_NewOrFullyScheduled ==
  \A i \in 1..Len(cards) : Cardinality(Scheduled(cards[i])) \in {0, 5}

\* reached: with the scheduler off, a scheduled card was rated again and
\* another card was rated for the first time
C18_Witness ==
  /\ ~useSRS
  /\ \E i, j \in 1..Len(cards) :
       /\ Cardinality(Scheduled(cards[i])) = 5
       /\ cards[i].difficulty # "none"
       /\ Cardinality(Scheduled(cards[j])) = 0
       /\ cards[j].difficulty # "none"

\* C19: a card's difficulty is the rating it was given last, from that
\* rating until the card is rated again or the deck is reset (none when it
\* has not been rated since the reset); and switching the scheduler on or
\* off changes no field of any card.
C19_DifficultyIsLastRating ==
  /\ [](\A i \in 1..Len(cards) : cards[i].difficulty = lastRating[cards[i].id])
  /\ [][ToggleSRS => cards' = cards]_vars

\* reached: a card rated hard with the scheduler on still reads hard after
\* the scheduler was switched off and its neighbour was rated
C19_Witness ==
  /\ ~useSRS /\ ~crashed
  /\ \E i, j \in 1..Len(cards) :
       /\ cards[i].difficulty = "hard" /\ cards[i].dueDate # NoVal
       /\ cards[j].difficulty \in {"easy", "medium"} /\ cards[j].dueDate = NoVal

\* C20: the deck always has the baseline's length and the card at 1-based
\* position i has id i (so the ids are pairwise distinct), through ratings,
\* toggles, review passes and both resets.
C20_IdsAreBaselinePositions ==
  /\ Len(cards) = Len(initialCards)
  /\ \A i \in 1..Len(cards) : cards[i].id = i
  /\ \A i, j \in 1..Len(cards) : cards[i].id = cards[j].id => i = j

\* reached: a review pass is under way over a deck with a rated card and a
\* favorite
C20_Witness ==
  /\ isReviewingHard /\ passNo >= 1 /\ passRated # <<>>
  /\ \E i \in 1..Len(cards) : cards[i].favorite
  /\ \E i \in 1..Len(cards) : cards[i].difficulty # "none"
  /\ Ids(cards) = [i \in 1..NumCards |-> i]

\* positions of the deck whose card is due and matches the query
DueMatching ==
  {i \in 1..Len(cards) :
     /\ cards[i].dueDate = NoVal \/ cards[i].dueDate <= now
     /\ trim(searchQuery) = <<>> \/ MatchesQuery(cards[i], searchQuery)}

\* card a is shown before card b: a has no due date, or both have one and
\* a's is not later
DueBefore(a, b) ==
  \/ a.dueDate = NoVal
  \/ b.dueDate # NoVal /\ a.dueDate <= b.dueDate

C22_ResetAllDataRestoresBaseline ==
  [][ResetAllData =>
       /\ sessions' = <<>>
       /\ cards' = convertToSRSCards
       /\ \A k \in 1..Len(stored') : Scheduled(stored'[k]) = {}
       /\ ~crashed' /\ ~isReviewingHard' /\ ~showReviewPrompt' /\ ~showScoreboard'
       /\ currentIndex' = 0 /\ filterType' = "all" /\ searchQuery' = <<>>]_vars

\* reached: cards were rated with the scheduler on, and the deck, the store
\* and the log show nothing of it
C22_Witness ==
  /\ scheduled > 0
  /\ \A id \in 1..NumCards : lastRating[id] = "none"
  /\ sessions = <<>>
  /\ cards = convertToSRSCards
  /\ \A k \in 1..Len(stored) : Scheduled(stored[k]) = {}
  /\ ~crashed /\ currentIndex = 0

\* C23: for every card the scheduler can have produced, new or scheduled,
\* and each rating, the card calculateNextReview returns at day now has
\* lastReviewed = now and dueDate >= now, and is due at that day only if
\* its dueDate is that day.
C23_ReviewedNowDueNotBefore ==
  \A i \in 1..Len(cards), rating \in Ratings :
    LET rated == calculateNextReview(cards[i], rating, now) IN
    /\ rated.lastReviewed = now
    /\ rated.dueDate >= now
    /\ IsDue(rated, now) => rated.dueDate = now

\* reached: a card reviewed on an earlier day and overdue today, next to a
\* new card, both about to be rated
C23_Witness ==
  /\ stepsLeft < MaxReviews
  /\ \E i, j \in 1..Len(cards) :
       /\ cards[i].dueDate # NoVal /\ cards[i].dueDate < now
       /\ cards[i].lastReviewed < now /\ cards[i].repetitions >= 1
       /\ cards[j].dueDate = NoVal

\* C24: a hard rating with the scheduler leaves the rated card with
\* repetitions 0 and the fixed minimum interval, whatever its interval,
\* repetitions and ease factor were.
C24_HardResets ==
  [][\A i \in 1..NumCards :
       ApplyRating(i, "hard") =>
         /\ cards'[i].repetitions = 0
         /\ cards'[i].interval = HardInterval]_vars

\* reached: a card rated hard after at least two easy ratings, which had
\* taken its interval to six days or more
C24_Witness ==
  \E i \in 1..Len(cards) :
    /\ cards[i].difficulty = "hard"
    /\ cards[i].repetitions = 0 /\ cards[i].interval = HardInterval
    /\ cards[i].easeFactor >= DefaultEase + EaseStep

\* the card a new card becomes by n easy ratings in a row, n = 1, 2
EasyOnce(card) ==
  /\ card.difficulty = "easy" /\ card.repetitions = 1 /\ card.interval = 1
  /\ card.easeFactor = DefaultEase + EaseStep
EasyTwice(card) ==
  /\ card.difficulty = "easy" /\ card.repetitions = 2 /\ card.interval = 6
  /\ card.easeFactor = DefaultEase + 2 * EaseStep

\* C25: the first easy rating of a new card gives interval 1 and
\* repetitions 1, the second in a row interval 6 and repetitions 2; the
\* third is the first whose interval is the previous one multiplied by the
\* ease factor.
C25_EasySeedIntervals ==
  [][\A i \in 1..NumCards :
       ApplyRating(i, "easy") =>
         /\ cards[i].dueDate = NoVal => EasyOnce(cards'[i])
         /\ EasyOnce(cards[i]) => EasyTwice(cards'[i])
         /\ EasyTwice(cards[i]) =>
              /\ cards'[i].repetitions = 3
              /\ cards'[i].interval = (2 * 6 * cards[i].easeFactor + 10) \div 20
              /\ cards'[i].interval > 6]_vars

\* reached: a card after three easy ratings in a row from new
C25_Witness ==
  \E i \in 1..Len(cards) :
    /\ cards[i].difficulty = "easy" /\ cards[i].repetitions = 3
    /\ cards[i].interval = 17
    /\ cards[i].easeFactor = DefaultEase + 3 * EaseStep

\* C26: getDueCards applied to its own result returns that result, every
\* card without a due date is in the result, and the result lists cards of
\* the input in the input's order.
C26_DueCardsIdempotentSubsequence ==
  LET due == getDueCards(cards, now) IN
  /\ getDueCards(due, now) = due
  /\ \A i \in 1..Len(cards) :
       cards[i].dueDate = NoVal => \E k \in 1..Len(due) : due[k] = cards[i]
  /\ \A k \in 1..Len(due) : \E i \in 1..Len(cards) : cards[i] = due[k]
  /\ \A k, m \in 1..Len(due) :
       k < m => \E i, j \in 1..Len(cards) :
                  i < j /\ cards[i] = due[k] /\ cards[j] = due[m]

\* reached: one card is overdue and another is not due yet
C26_Witness ==
  \E i, j \in 1..Len(cards) :
    /\ cards[i].dueDate # NoVal /\ cards[i].dueDate < now
    /\ cards[j].dueDate > now

\* the deck in its order and in the reverse order
Orders == {cards, [i \in 1..Len(cards) |-> cards[Len(cards) + 1 - i]]}

\* C27: sortCardsByDueDate applied twice gives what it gives applied once,
\* returns a sorted sequence unchanged, and keeps cards with the same or no
\* due date in their input order.
C27_SortIdempotentStable ==
  \A input \in Orders :
    LET sorted == sortCardsByDueDate(input) IN
    /\ sortCardsByDueDate(sorted) = sorted
    /\ (\A k, m \in 1..Len(input) : k < m => DueBefore(input[k], input[m]))
         => sorted = input
    /\ Len(sorted) = Len(input)
    /\ \A k \in 1..Len(input) : \E m \in 1..Len(sorted) : sorted[m] = input[k]
    /\ \A k, m \in 1..Len(sorted) : k < m => DueBefore(sorted[k], sorted[m])
    /\ \A k, m \in 1..Len(input) :
         k < m /\ input[k].dueDate = input[m].dueDate =>
           \E a, b \in 1..Len(sorted) :
             a < b /\ sorted[a] = input[k] /\ sorted[b] = input[m]

\* reached: two cards with the same due date, and the clock past it
C27_Witness ==
  /\ cards[1].dueDate # NoVal
  /\ cards[1].dueDate = cards[2].dueDate
  /\ cards[1].dueDate <= now

\* C28: a rating on the deck screen is followed by the display of the card
\* that stood after the rated card in the view (the first card after the
\* last), or by the review prompt at the end of a pass without filter and
\* query; this also when the rating takes the rated card out of the view.
C28_RatingAdvancesToFollower ==
  [][\A d \in Ratings :
       RateCard(d) =>
         LET view == getFilteredCards(Cur)
             follower == view[((currentIndex + 1) % Len(view)) + 1]
         IN \/ /\ showReviewPrompt'
               /\ currentIndex + 1 = Len(view)
               /\ filterType = "all" /\ searchQuery = <<>>
            \/ /\ ~showReviewPrompt' /\ ~crashed'
               /\ (\E m \in 1..Len(getFilteredCards(Cur)') :
                     getFilteredCards(Cur)'[m].id = follower.id)
                    => /\ currentIndex' < Len(getFilteredCards(Cur)')
                       /\ getFilteredCards(Cur)'[currentIndex' + 1].id = follower.id]_vars

\* C29: whenever the deck screen is rendered over a non-empty view, the
\* cursor is an index of the view: 0 <= currentIndex < length of the view.
C29_CursorValidWhenRead ==
  ~isReviewingHard /\ ~showReviewPrompt /\ Len(getFilteredCards(Cur)) > 0 =>
    currentIndex >= 0 /\ currentIndex < Len(getFilteredCards(Cur))

\* C30: while a review pass is in progress (review mode on, scoreboard not
\* shown) the snapshot is not empty and reviewIndex is an index of it, so
\* the "No hard cards to review!" screen is never rendered.
C30_PassHasCurrentCard ==
  /\ isReviewingHard /\ ~showScoreboard =>
       /\ Len(hardCardsForReview) > 0
       /\ reviewIndex >= 0 /\ reviewIndex < Len(hardCardsForReview)
  /\ Screen(Cur) # "noHardCards"

\* reached: the second card of the second pass over two hard cards
C30_Witness ==
  /\ ~crashed /\ isReviewingHard /\ ~showScoreboard
  /\ passNo = 2 /\ reviewIndex = 1 /\ Len(hardCardsForReview) = 2

\* C31: the scoreboard flag is on only in review mode, and the prompt flag
\* and review mode are never on together, so the flags name exactly one of
\* browsing, prompt, review pass and scoreboard.
C31_OneModeAtATime ==
  /\ showScoreboard => isReviewingHard
  /\ ~(showReviewPrompt /\ isReviewingHard)
  /\ Cardinality({m \in {"browsing", "prompt", "review", "scoreboard"} :
        \/ m = "browsing" /\ ~isReviewingHard /\ ~showReviewPrompt /\ ~showScoreboard
        \/ m = "prompt" /\ ~isReviewingHard /\ showReviewPrompt /\ ~showScoreboard
        \/ m = "review" /\ isReviewingHard /\ ~showReviewPrompt /\ ~showScoreboard
        \/ m = "scoreboard" /\ isReviewingHard /\ ~showReviewPrompt /\ showScoreboard})
       = 1

\* reached: the scoreboard of a second pass is on show
C31_Witness ==
  /\ ~crashed /\ isReviewingHard /\ showScoreboard /\ ~showReviewPrompt
  /\ passNo = 2

\* C32: every record of the session log has cardsReviewed >= 1 and
\* cardsReviewed = easy + medium + hard; a step leaves the log as it is or
\* appends to it, except Reset All Data, which empties it.
C32_LogRecordsAndGrowth ==
  /\ [](\A k \in 1..Len(sessions) :
          /\ sessions[k].cardsReviewed >= 1
          /\ sessions[k].cardsReviewed =
               sessions[k].easy + sessions[k].medium + sessions[k].hard)
  /\ [][\/ /\ Len(sessions') >= Len(sessions)
           /\ SubSeq(sessions', 1, Len(sessions)) = sessions
        \/ ResetAllData /\ sessions' = <<>>]_vars

\* reached: the log holds two records, the scoreboard's effect has written
\* to it and the review has been left
C32_Witness ==
  /\ Len(sessions) = 2
  /\ hookMounted
  /\ ~isReviewingHard /\ ~crashed

\* the number of cards of the deck rated d
RatedAs(d) == Cardinality({i \in 1..Len(cards) : cards[i].difficulty = d})

\* C33: a restart from the deck screen, the empty-view screen or the prompt
\* appends one record, counting the ratings the deck carried before the
\* reset, when at least one card carried a rating, and none otherwise;
\* after it the deck is on show at cursor 0 with filter 'all', an empty
\* query and zeroed review counters.
C33_RestartFlushesOneRecord ==
  [][Restart =>
       /\ IF RatedAs("easy") + RatedAs("medium") + RatedAs("hard") > 0
          THEN sessions' =
                 Append(sessions,
                        [cardsReviewed |->
                           RatedAs("easy") + RatedAs("medium") + RatedAs("hard"),
                         easy |-> RatedAs("easy"), medium |-> RatedAs("medium"),
                         hard |-> RatedAs("hard")])
          ELSE sessions' = sessions
       /\ ~crashed' /\ ~isReviewingHard' /\ ~showReviewPrompt' /\ ~showScoreboard'
       /\ currentIndex' = 0 /\ filterType' = "all" /\ searchQuery' = <<>>
       /\ reviewResults' = [easy |-> 0, medium |-> 0, hard |-> 0]]_vars

\* reached: the deck is new again after ratings, and the log has the record
\* of a pass in which both cards were rated
C33_Witness ==
  /\ ~crashed /\ ~isReviewingHard /\ ~showReviewPrompt /\ currentIndex = 0
  /\ \A i \in 1..Len(cards) : cards[i].difficulty = "none"
  /\ \E k \in 1..Len(sessions) : sessions[k].cardsReviewed = NumCards

\* C34: a query of nothing but whitespace counts as no query: the view is
\* the view of the empty query, and Next on the last card of the 'all' view
\* raises the review prompt when a card is hard, as it does with the empty
\* query.
C34_BlankQueryIsNoQuery ==
  /\ [](trim(searchQuery) = <<>> =>
          getFilteredCards(Cur) = getFilteredCards([Cur EXCEPT !.searchQuery = <<>>]))
  /\ [][ClickNext /\ trim(searchQuery) = <<>> /\ filterType = "all"
          /\ currentIndex + 1 = Len(getFilteredCards(Cur)) /\ HasHard(cards)
          => showReviewPrompt']_vars

\* C35: with the scheduler switched off and the filter 'due' still selected
\* the view is empty whatever the deck holds, and Next, Previous, the arrow
\* keys and the favorite toggle change neither the deck nor the cursor nor
\* the screen.
DueWithoutSRS == ~crashed /\ ~isReviewingHard /\ ~useSRS /\ filterType = "due"

C35_DueWithoutSRSIsEmptyAndInert ==
  /\ [](DueWithoutSRS => getFilteredCards(Cur) = <<>>)
  /\ [][(/\ DueWithoutSRS
         /\ \/ ClickNext \/ ClickPrevious \/ ToggleFavorite
            \/ \E code \in {"ArrowLeft", "ArrowRight"} : PressKey(code)) =>
          /\ cards' = cards
          /\ currentIndex' = currentIndex
          /\ showReviewPrompt' = showReviewPrompt]_vars

\* C36: during a pass over the hard cards the favorite state shown for the
\* card under review is the favorite flag that card has in the deck, also
\* after the favorite has been toggled during the pass.
C36_ReviewShowsDeckFavorite ==
  OnReview =>
    \A i \in 1..Len(cards) :
       cards[i].id = hardCardsForReview[reviewIndex + 1].id =>
         hardCardsForReview[reviewIndex + 1].favorite = cards[i].favorite

====
